---- MODULE Spec2Model ----
(***************************************************************************)
(* Model of proxy.py: a transparent TCP relay between mining clients and   *)
(* one fixed upstream pool.  main() accepts clients; handle_client() dials  *)
(* the pool, starts two forward() pump threads and registers the pair in    *)
(* the global list `connections`; forward() reads a chunk, inspects it      *)
(* (counting "submit" messages in the global `shares_submitted` under the   *)
(* global `lock`), and writes the chunk to the other socket.                *)
(* hashrate_monitor() reads the registry size and the counter under the     *)
(* lock every ten seconds.  Of the log, the lines "Share submitted! Total", *)
(* "Received new job from pool" and "Added new connection" are kept.        *)
(*                                                                         *)
(* Bytes are abstracted to tokens:                                         *)
(*   "S"        the text {"method":"submit"} in one piece                  *)
(*   "S1","S2"  the same text cut in two: S1 S2 together is that text,     *)
(*              either half alone is truncated JSON                        *)
(*   "J"        the text {"result":{"job":{}}}                             *)
(*   "M"        the text {"result":{}}: a mapping without the key job      *)
(*   "R"        the text {"result":1}: a result that is no mapping         *)
(*   "A"        the text 1: JSON, but not an object                        *)
(*   "NL"       the newline byte                                           *)
(*   "X"        a byte that is not valid UTF-8                             *)
(***************************************************************************)
EXTENDS Integers, Sequences, FiniteSets, Bags, TLC

\* ------------------------------------------------------------------ bounds
\* Session slots of the model (client connections that may ever be accepted).
MaxSessions == 2
\* Bytes the peers deliver in total in one run of Spec.
MaxBytes == 1
\* Bytes the peers deliver in total in one run of DataSpec.
DataBytes == 3
\* Bytes the peers deliver in total in one run of LineSpec.
LineBytes == 4
\* Bytes the peers deliver in total in one run of FairSpec.
FairBytes == 1
\* Bytes the peers deliver in total in one run of CountSpec.
CountBytes == 3
\* Bytes the peers deliver in total in one run of ScenSpec.
ScenBytes == 4

Sessions == 1..MaxSessions
Dir == {"c2p", "p2c"}
Pumps == Sessions \X Dir
Byte == {"S", "S1", "S2", "J", "M", "R", "A", "NL", "X"}

VARIABLES
  mainPc,            \* main(): "bind", "accept", "finally", "sweep", "stopped"
  caught,            \* the exception main() caught: "none", "bind", "accept", "interrupt"
  env,               \* what the outside may still do: [conns, bytes, tokens, pool]
  nAccepted,         \* connections accepted so far (the next session is nAccepted+1)
  hPc,               \* handle_client() of session s
  sockC,             \* client_socket of session s: "none", "open", "closed"
  sockP,             \* pool_socket of session s
  pPc,               \* forward() of pump <<s, d>>
  msgs,              \* the lines of the chunk still to inspect (local `messages`)
  tmp,               \* the value of shares_submitted loaded by `+= 1`
  rd,                \* history: the chunks recv() returned to the pump
  wr,                \* history: the bytes sendall() wrote to dst
  lock,              \* holder of the global lock
  shares_submitted,  \* the global share counter
  connections,       \* the global registry: sequence of registered sessions
  monPc,             \* hashrate_monitor(): "off", "sleep", "snap"
  current_connections, \* hashrate_monitor(): the local of that name, from the
                     \* read of len(connections) to the summary line (else 0)
  log                \* the log lines written so far, as a bag (their order left out)

vars == <<mainPc, caught, env, nAccepted, hPc, sockC, sockP, pPc, msgs, tmp, rd, wr,
          lock, shares_submitted, connections, monPc,
          current_connections, log>>

\* ---------------------------------------------------------------- helpers
Free == <<"free", 0>>
MainThread == <<"main", 0>>
MonitorThread == <<"monitor", 0>>
HandlerThread(s) == <<"handler", s>>
PumpThread(p) == <<p[2], p[1]>>

RECURSIVE Flatten(_)
Flatten(chunks) ==
  IF chunks = <<>> THEN <<>> ELSE Head(chunks) \o Flatten(Tail(chunks))

Last(q) == q[Len(q)]

IsPrefix(a, b) == Len(a) <= Len(b) /\ SubSeq(b, 1, Len(a)) = a

\* The non-empty sequences over `tokens` of length at most n.
RECURSIVE Chunks(_, _)
Chunks(tokens, n) ==
  IF n = 0 THEN {}
  ELSE LET shorter == Chunks(tokens, n - 1)
       IN  {<<b>> : b \in tokens} \cup shorter
             \cup {Append(q, b) : q \in shorter, b \in tokens}

\* The process runs until main() returns; its threads are daemon threads.
Running == mainPc # "stopped"

\* src and dst of a pump: forward(client_socket, pool_socket, True) and
\* forward(pool_socket, client_socket, False).
IsFromClient(p) == p[2] = "c2p"
SrcOpen(p) == IF IsFromClient(p) THEN sockC[p[1]] = "open" ELSE sockP[p[1]] = "open"
DstOpen(p) == IF IsFromClient(p) THEN sockP[p[1]] = "open" ELSE sockC[p[1]] = "open"
Other(p) == <<p[1], IF p[2] = "c2p" THEN "p2c" ELSE "c2p">>

\* ------------------------------------------------------ message inspection
\* data.decode(): UTF-8 decoding raises on an invalid byte anywhere in the chunk.
Decodable(chunk) == \A i \in 1..Len(chunk) : chunk[i] # "X"

\* str.split('\n'): the pieces between newlines, empty pieces included.
RECURSIVE Split(_)
Split(chunk) ==
  LET nl == {i \in 1..Len(chunk) : chunk[i] = "NL"}
  IN  IF nl = {} THEN <<chunk>>
      ELSE LET i == CHOOSE k \in nl : \A j \in nl : k <= j
           IN  <<SubSeq(chunk, 1, i - 1)>> \o Split(SubSeq(chunk, i + 1, Len(chunk)))

\* json.loads(msg) and what the inspector reads from the payload:
\*   "submit"  an object whose method is "submit"
\*   "job"     an object whose result is a mapping with key job (no method)
\*   "mapping" an object whose result is a mapping without key job (no method)
\*   "result"  an object whose result is no mapping (no method)
\*   "scalar"  a JSON value that is no object: payload.get(...) raises
\*             AttributeError, `"result" in payload` raises TypeError
\*   "invalid" json.JSONDecodeError (truncated or concatenated text)
Parse(msg) ==
  IF msg = <<"S">> \/ msg = <<"S1", "S2">> THEN "submit"
  ELSE IF msg = <<"J">> THEN "job"
  ELSE IF msg = <<"M">> THEN "mapping"
  ELSE IF msg = <<"R">> THEN "result"
  ELSE IF msg = <<"A">> THEN "scalar"
  ELSE "invalid"

\* An inspector that counts submit lines of either direction.
NeedsLockAnyDirection(p, msg) == msg # <<>> /\ Parse(msg) = "submit"

\* Does this line make the pump enter `with lock:`?  Only a non-empty
\* from-client line that json.loads() decodes and whose method is "submit".
NeedsLock(p, msg) == IsFromClient(p) /\ msg # <<>> /\ Parse(msg) = "submit"

\* The loop over `messages` up to the next line that needs the lock: an empty
\* line is skipped, a line json.loads() rejects is passed over, any other
\* decoded object is only logged, and a decoded value that is no object
\* raises out of the loop to the outer `except Exception`, which ends the
\* inspection of the chunk.  What is returned are the lines still to do.
RECURSIVE SkipLocal(_, _)
SkipLocal(p, lines) ==
  IF lines = <<>> THEN <<>>
  ELSE IF NeedsLock(p, Head(lines)) THEN lines
  ELSE IF Head(lines) # <<>> /\ Parse(Head(lines)) = "scalar" THEN <<>>
  ELSE SkipLocal(p, Tail(lines))

\* The lines of a chunk the inspection starts on: none if data.decode()
\* raises (the outer `except Exception` ends the inspection of the chunk).
Lines(chunk) == IF Decodable(chunk) THEN Split(chunk) ELSE <<>>

\* A from-pool inspector that takes every message with a result for a job.
RECURSIVE JobLinesAnyResult(_)
JobLinesAnyResult(lines) ==
  IF lines = <<>> THEN 0
  ELSE IF Head(lines) = <<>> THEN JobLinesAnyResult(Tail(lines))
  ELSE IF Parse(Head(lines)) = "scalar" THEN 0
  ELSE (IF Parse(Head(lines)) \in {"job", "mapping", "result"} THEN 1 ELSE 0)
         + JobLinesAnyResult(Tail(lines))

\* The from-pool loop over `messages`: the number of lines that log "Received
\* new job from pool".  An empty line is skipped, a line json.loads() rejects
\* is passed over, an object is a job if it has a result that is a mapping
\* with key job, and a decoded value that is no object raises out of the loop
\* (`"result" in payload` is a TypeError), which ends the inspection.
RECURSIVE JobLines(_)
JobLines(lines) ==
  IF lines = <<>> THEN 0
  ELSE IF Head(lines) = <<>> THEN JobLines(Tail(lines))
  ELSE IF Parse(Head(lines)) = "scalar" THEN 0
  ELSE (IF Parse(Head(lines)) = "job" THEN 1 ELSE 0) + JobLines(Tail(lines))

\* One line of the log: what it reports (`ev`), the number in it (`n`), and
\* whether the thread that wrote it held the lock at that moment.
LogLine(ev, n, held) == [ev |-> ev, n |-> n, held |-> held]

\* The log after `k` more copies of `line`.
Logged(line, k) == IF k = 0 THEN log ELSE log (+) [x \in {line} |-> k]

\* Where the pump is once the lines `rest` are what is left of the chunk.
AfterLines(rest) == IF rest = <<>> THEN "send" ELSE "inspect"

\* A lock that keeps nobody out.
LockIgnored == TRUE

\* `with lock:` can be entered: no thread holds the lock.
LockFree == lock = Free

\* -------------------------------------------------------------------- Init
\* `tokens` is what clients send, `pool` what the pool sends.
InitEnv(conns, bytes, tokens, pool) ==
  /\ mainPc = "bind"
  /\ caught = "none"
  /\ env = [conns |-> conns, bytes |-> bytes, tokens |-> tokens, pool |-> pool]
  /\ nAccepted = 0
  /\ hPc = [s \in Sessions |-> "none"]
  /\ sockC = [s \in Sessions |-> "none"]
  /\ sockP = [s \in Sessions |-> "none"]
  /\ pPc = [p \in Pumps |-> "idle"]
  /\ msgs = [p \in Pumps |-> <<>>]
  /\ tmp = [p \in Pumps |-> 0]
  /\ rd = [p \in Pumps |-> <<>>]
  /\ wr = [p \in Pumps |-> <<>>]
  /\ lock = Free
  /\ shares_submitted = 0
  /\ connections = <<>>
  /\ monPc = "off"
  /\ current_connections = 0
  /\ log = EmptyBag

\* Clients and pool send from the same repertoire.
InitWith(conns, bytes, tokens) == InitEnv(conns, bytes, tokens, tokens)

\* Every session slot may connect; clients send submit messages, the pool
\* sends undecodable bytes.
Init == InitEnv(MaxSessions, MaxBytes, {"S"}, {"X"})

\* One connection; the peers send fragments of messages, newlines and
\* undecodable bytes.
InitData == InitWith(1, DataBytes, {"S1", "S2", "NL", "X"})

\* One connection; the peers send whole JSON texts, newlines and undecodable
\* bytes.
InitLine == InitWith(1, LineBytes, {"S", "A", "NL", "X"})

\* One connection; the peers send submit messages.
InitFair == InitWith(1, FairBytes, {"S"})

\* One connection; the client sends submit messages, messages without a
\* method, newlines and undecodable bytes; the pool sends submit messages and
\* newlines.
InitCount == InitEnv(1, CountBytes, {"S", "J", "NL", "X"}, {"S", "NL"})

\* One connection; the client sends submit messages and newlines; the pool
\* sends job messages, results that are a mapping without job, results that
\* are no mapping, messages without a result, and newlines.
InitScen == InitEnv(1, ScenBytes, {"S", "NL"}, {"J", "M", "R", "S", "NL"})

\* ------------------------------------------------------------------ main()
\* bind/listen succeed; the monitor thread is started; the accept loop begins.
BindOk ==
  /\ mainPc = "bind"
  /\ mainPc' = "accept"
  /\ monPc' = "sleep"
  /\ UNCHANGED <<caught, env, nAccepted, hPc, sockC, sockP, pPc, msgs, tmp, rd, wr,
                 lock, shares_submitted, connections,
                 current_connections, log>>

\* bind raises: `except Exception` logs it and control reaches `finally`.
BindFail ==
  /\ mainPc = "bind"
  /\ mainPc' = "finally"
  /\ caught' = "bind"
  /\ UNCHANGED <<env, nAccepted, hPc, sockC, sockP, pPc, msgs, tmp, rd, wr,
                 lock, shares_submitted, connections, monPc,
                 current_connections, log>>

\* server.accept() returns a client; a handle_client thread is started for it.
Accept ==
  /\ mainPc = "accept"
  /\ env.conns > 0
  /\ nAccepted < MaxSessions
  /\ nAccepted' = nAccepted + 1
  /\ env' = [env EXCEPT !.conns = @ - 1]
  /\ sockC' = [sockC EXCEPT ![nAccepted + 1] = "open"]
  /\ hPc' = [hPc EXCEPT ![nAccepted + 1] = "dial"]
  /\ UNCHANGED <<mainPc, caught, sockP, pPc, msgs, tmp, rd, wr,
                 lock, shares_submitted, connections, monPc,
                 current_connections, log>>

\* Where main() is after accept() raised an Exception: the try block encloses
\* the whole while loop, so `except Exception` logs the error and control
\* falls to `finally`.
AfterAcceptError == "finally"

\* server.accept() raises an Exception.
AcceptError ==
  /\ mainPc = "accept"
  /\ mainPc' = AfterAcceptError
  /\ caught' = "accept"
  /\ UNCHANGED <<env, nAccepted, hPc, sockC, sockP, pPc, msgs, tmp, rd, wr,
                 lock, shares_submitted, connections, monPc,
                 current_connections, log>>

\* KeyboardInterrupt while in the accept loop.
Interrupt ==
  /\ mainPc = "accept"
  /\ mainPc' = "finally"
  /\ caught' = "interrupt"
  /\ UNCHANGED <<env, nAccepted, hPc, sockC, sockP, pPc, msgs, tmp, rd, wr,
                 lock, shares_submitted, connections, monPc,
                 current_connections, log>>

\* finally: `with lock:` is entered.
SweepAcquire ==
  /\ mainPc = "finally"
  /\ LockFree
  /\ lock' = MainThread
  /\ mainPc' = "sweep"
  /\ UNCHANGED <<caught, env, nAccepted, hPc, sockC, sockP, pPc, msgs, tmp, rd, wr,
                 shares_submitted, connections, monPc,
                 current_connections, log>>

\* The sessions listed in `connections`.
Registered == {connections[i] : i \in 1..Len(connections)}

\* The loop over `connections` closes both sockets of every listed pair and
\* the lock is released; server.close(), the last log line, and main()
\* returns: the process ends and its daemon threads end with it.
Sweep ==
  /\ mainPc = "sweep"
  /\ lock = MainThread
  /\ sockC' = [s \in Sessions |-> IF s \in Registered THEN "closed" ELSE sockC[s]]
  /\ sockP' = [s \in Sessions |-> IF s \in Registered THEN "closed" ELSE sockP[s]]
  /\ lock' = Free
  /\ mainPc' = "stopped"
  /\ UNCHANGED <<caught, env, nAccepted, hPc, pPc, msgs, tmp, rd, wr,
                 shares_submitted, connections, monPc,
                 current_connections, log>>

\* --------------------------------------------------------- handle_client()
\* pool_socket.connect() succeeds; t1 and t2 are created and started: both
\* pumps begin in src.recv().
DialOk(s) ==
  /\ Running
  /\ hPc[s] = "dial"
  /\ sockP' = [sockP EXCEPT ![s] = "open"]
  /\ pPc' = [pPc EXCEPT ![<<s, "c2p">>] = "recv", ![<<s, "p2c">>] = "recv"]
  /\ hPc' = [hPc EXCEPT ![s] = "register"]
  /\ UNCHANGED <<mainPc, caught, env, nAccepted, sockC, msgs, tmp, rd, wr,
                 lock, shares_submitted, connections, monPc,
                 current_connections, log>>

\* A handler that returns on a failed dial without closing the client socket.
DialFailKeepsClient(s) ==
  /\ Running
  /\ hPc[s] = "dial"
  /\ hPc' = [hPc EXCEPT ![s] = "failed"]
  /\ UNCHANGED <<mainPc, caught, env, nAccepted, sockC, sockP, pPc, msgs, tmp, rd, wr,
                 lock, shares_submitted, connections, monPc,
                 current_connections, log>>

\* pool_socket.connect() raises: the error is logged, the client socket is
\* closed and the handler returns.
DialFail(s) ==
  /\ Running
  /\ hPc[s] = "dial"
  /\ sockC' = [sockC EXCEPT ![s] = "closed"]
  /\ hPc' = [hPc EXCEPT ![s] = "failed"]
  /\ UNCHANGED <<mainPc, caught, env, nAccepted, sockP, pPc, msgs, tmp, rd, wr,
                 lock, shares_submitted, connections, monPc,
                 current_connections, log>>

\* `with lock:` after the threads were started.
RegisterAcquire(s) ==
  /\ Running
  /\ hPc[s] = "register"
  /\ LockFree
  /\ lock' = HandlerThread(s)
  /\ hPc' = [hPc EXCEPT ![s] = "append"]
  /\ UNCHANGED <<mainPc, caught, env, nAccepted, sockC, sockP, pPc, msgs, tmp, rd, wr,
                 shares_submitted, connections, monPc,
                 current_connections, log>>

\* connections.append(...), the log line, and the lock is released.
RegisterAppend(s) ==
  /\ Running
  /\ hPc[s] = "append"
  /\ lock = HandlerThread(s)
  /\ connections' = Append(connections, s)
  /\ log' = Logged(LogLine("added", Len(connections) + 1, lock = HandlerThread(s)), 1)
  /\ lock' = Free
  /\ hPc' = [hPc EXCEPT ![s] = "done"]
  /\ UNCHANGED <<mainPc, caught, env, nAccepted, sockC, sockP, pPc, msgs, tmp, rd, wr,
                 shares_submitted, monPc, current_connections>>

\* ------------------------------------------------------ hashrate_monitor()
\* After the sleep: `with lock:` is entered and len(connections) is read.
MonitorAcquire ==
  /\ Running
  /\ monPc = "sleep"
  /\ LockFree
  /\ lock' = MonitorThread
  /\ current_connections' = Len(connections)
  /\ monPc' = "snap"
  /\ UNCHANGED <<mainPc, caught, env, nAccepted, hPc, sockC, sockP, pPc, msgs, tmp, rd, wr,
                 shares_submitted, connections, log>>

\* shares_submitted is read, the lock is released, and the summary line
\* reports the rate of the shares read now and the current_connections read
\* before; the next turn of the loop sleeps with nothing read.
MonitorSnapshot ==
  /\ Running
  /\ monPc = "snap"
  /\ lock' = Free
  /\ current_connections' = 0
  /\ monPc' = "sleep"
  /\ UNCHANGED <<mainPc, caught, env, nAccepted, hPc, sockC, sockP, pPc, msgs, tmp, rd, wr,
                 shares_submitted, connections, log>>

\* --------------------------------------------------------------- forward()
\* src.recv(4096) returns a non-empty chunk, and the inspection runs up to
\* the first line that needs the lock; a from-pool chunk is inspected to its
\* end, logging its job lines.  A recv() already in progress returns the data
\* that arrives even if the socket object was closed meanwhile.
RecvData(p, chunk) ==
  /\ Running
  /\ pPc[p] = "recv"
  /\ Len(chunk) <= env.bytes
  /\ env' = [env EXCEPT !.bytes = @ - Len(chunk)]
  /\ rd' = [rd EXCEPT ![p] = Append(@, chunk)]
  /\ msgs' = [msgs EXCEPT ![p] = SkipLocal(p, Lines(chunk))]
  /\ pPc' = [pPc EXCEPT ![p] = AfterLines(SkipLocal(p, Lines(chunk)))]
  /\ log' = IF IsFromClient(p) THEN log
            ELSE Logged(LogLine("job", 0, lock = PumpThread(p)), JobLines(Lines(chunk)))
  /\ UNCHANGED <<mainPc, caught, nAccepted, hPc, sockC, sockP, tmp, wr,
                 lock, shares_submitted, connections, monPc,
                 current_connections>>

\* A pump that on leaving its loop closes the client socket only.
StopPumpClientOnly(p) ==
  /\ pPc' = [pPc EXCEPT ![p] = "done"]
  /\ sockC' = [sockC EXCEPT ![p[1]] = "closed"]
  /\ sockP' = sockP

\* A pump that on leaving its loop closes the sockets of every session.
StopPumpAll(p) ==
  /\ pPc' = [pPc EXCEPT ![p] = "done"]
  /\ sockC' = [s \in Sessions |-> IF sockC[s] = "none" THEN "none" ELSE "closed"]
  /\ sockP' = [s \in Sessions |-> IF sockP[s] = "none" THEN "none" ELSE "closed"]

\* The pump leaves its loop (`break`): src.close() and dst.close() follow and
\* forward() returns.
StopPump(p) ==
  /\ pPc' = [pPc EXCEPT ![p] = "done"]
  /\ sockC' = [sockC EXCEPT ![p[1]] = "closed"]
  /\ sockP' = [sockP EXCEPT ![p[1]] = "closed"]

\* src.recv() returns b"": the peer closed.
RecvEOF(p) ==
  /\ Running
  /\ pPc[p] = "recv"
  /\ StopPump(p)
  /\ UNCHANGED <<mainPc, caught, env, nAccepted, hPc, msgs, tmp, rd, wr,
                 lock, shares_submitted, connections, monPc,
                 current_connections, log>>

\* src.recv() raises because of the connection (reset by the peer).
RecvError(p) ==
  /\ Running
  /\ pPc[p] = "recv"
  /\ SrcOpen(p)
  /\ StopPump(p)
  /\ UNCHANGED <<mainPc, caught, env, nAccepted, hPc, msgs, tmp, rd, wr,
                 lock, shares_submitted, connections, monPc,
                 current_connections, log>>

\* A src.recv() in progress raises because the socket object was closed by
\* another thread (the other pump, or main's sweep).  Whether a blocked recv()
\* is woken by close() depends on the platform: it is not on Linux.
RecvWake(p) ==
  /\ Running
  /\ pPc[p] = "recv"
  /\ ~SrcOpen(p)
  /\ StopPump(p)
  /\ UNCHANGED <<mainPc, caught, env, nAccepted, hPc, msgs, tmp, rd, wr,
                 lock, shares_submitted, connections, monPc,
                 current_connections, log>>

\* A submit line: `with lock:` is entered and `shares_submitted += 1` loads
\* the counter.
SubmitAcquire(p) ==
  /\ Running
  /\ pPc[p] = "inspect"
  /\ LockFree
  /\ lock' = PumpThread(p)
  /\ tmp' = [tmp EXCEPT ![p] = shares_submitted]
  /\ pPc' = [pPc EXCEPT ![p] = "locked"]
  /\ UNCHANGED <<mainPc, caught, env, nAccepted, hPc, sockC, sockP, msgs, rd, wr,
                 shares_submitted, connections, monPc,
                 current_connections, log>>

\* A pump that leaves `with lock:` without releasing the lock.
SubmitStoreKeepsLock(p) ==
  /\ Running
  /\ pPc[p] = "locked"
  /\ shares_submitted' = tmp[p] + 1
  /\ log' = Logged(LogLine("share", tmp[p] + 1, lock = PumpThread(p)), 1)
  /\ tmp' = [tmp EXCEPT ![p] = 0]
  /\ msgs' = [msgs EXCEPT ![p] = SkipLocal(p, Tail(@))]
  /\ pPc' = [pPc EXCEPT ![p] = AfterLines(SkipLocal(p, Tail(msgs[p])))]
  /\ UNCHANGED <<mainPc, caught, env, nAccepted, hPc, sockC, sockP, rd, wr,
                 lock, connections, monPc, current_connections>>

\* `shares_submitted += 1` stores the sum, the two log lines are written, the
\* lock is released, and the inspection runs on to the next line that needs
\* the lock.
SubmitStore(p) ==
  /\ Running
  /\ pPc[p] = "locked"
  /\ shares_submitted' = tmp[p] + 1
  /\ log' = Logged(LogLine("share", tmp[p] + 1, lock = PumpThread(p)), 1)
  /\ tmp' = [tmp EXCEPT ![p] = 0]
  /\ lock' = Free
  /\ msgs' = [msgs EXCEPT ![p] = SkipLocal(p, Tail(@))]
  /\ pPc' = [pPc EXCEPT ![p] = AfterLines(SkipLocal(p, Tail(msgs[p])))]
  /\ UNCHANGED <<mainPc, caught, env, nAccepted, hPc, sockC, sockP, rd, wr,
                 connections, monPc, current_connections>>

\* A pump that forwards the text it decoded instead of the bytes it read:
\* what is not UTF-8 is lost.
ForwardedDecoded(chunk) == SelectSeq(chunk, LAMBDA b : b # "X")

\* The bytes dst.sendall(data) is given: the chunk as it was received.
Forwarded(chunk) == chunk

\* dst.sendall(data) succeeds and the loop calls src.recv() again, which
\* raises at once if the socket object is closed by now.
SendOk(p) ==
  /\ Running
  /\ pPc[p] = "send"
  /\ DstOpen(p)
  /\ wr' = [wr EXCEPT ![p] = @ \o Forwarded(Last(rd[p]))]
  /\ IF SrcOpen(p)
       THEN pPc' = [pPc EXCEPT ![p] = "recv"] /\ UNCHANGED <<sockC, sockP,
                 current_connections, log>>
       ELSE StopPump(p)
  /\ UNCHANGED <<mainPc, caught, env, nAccepted, hPc, msgs, tmp, rd,
                 lock, shares_submitted, connections, monPc,
                 current_connections, log>>

\* dst.sendall(data) raises after k bytes went out (k = 0 when the socket
\* object is closed; any k short of the chunk on a connection error).
SendFail(p, k) ==
  /\ Running
  /\ pPc[p] = "send"
  /\ k < Len(Last(rd[p]))
  /\ ~DstOpen(p) => k = 0
  /\ wr' = [wr EXCEPT ![p] = @ \o SubSeq(Forwarded(Last(rd[p])), 1, k)]
  /\ StopPump(p)
  /\ UNCHANGED <<mainPc, caught, env, nAccepted, hPc, msgs, tmp, rd,
                 lock, shares_submitted, connections, monPc,
                 current_connections, log>>

\* -------------------------------------------------------------------- Next
MainStep ==
  \/ BindOk
  \/ BindFail
  \/ Accept
  \/ AcceptError
  \/ Interrupt
  \/ SweepAcquire
  \/ Sweep

HandlerStep(s) ==
  \/ DialOk(s)
  \/ DialFail(s)
  \/ RegisterAcquire(s)
  \/ RegisterAppend(s)

\* The steps of a pump that do not wait for the peer.
PumpRun(p) ==
  \/ SubmitAcquire(p)
  \/ SubmitStore(p)
  \/ SendOk(p)
  \/ \E k \in 0..(Len(Flatten(rd[p])) + 1) : SendFail(p, k)

\* What the peer at the src of the pump sends.
Tokens(p) == IF IsFromClient(p) THEN env.tokens ELSE env.pool

\* The ways a pending src.recv() returns.
PumpRecv(p) ==
  \/ \E chunk \in Chunks(Tokens(p), env.bytes) : RecvData(p, chunk)
  \/ RecvEOF(p)
  \/ RecvError(p)
  \/ RecvWake(p)

MonitorStep ==
  \/ MonitorAcquire
  \/ MonitorSnapshot

Next ==
  \/ MainStep
  \/ \E s \in Sessions : HandlerStep(s)
  \/ \E p \in Pumps : PumpRun(p)
  \/ \E p \in Pumps : PumpRecv(p)
  \/ MonitorStep

Spec == Init /\ [][Next]_vars

DataSpec == InitData /\ [][Next]_vars

LineSpec == InitLine /\ [][Next]_vars

CountSpec == InitCount /\ [][Next]_vars

ScenSpec == InitScen /\ [][Next]_vars

\* What the scheduling guarantees: a thread that can run does run, a call that
\* does not wait for the peer returns, and a thread waiting for the lock gets
\* it if it is free again and again.  Nothing makes a peer send or close, a
\* client connect, accept() fail or a signal arrive, and nothing wakes a
\* recv() that is blocked on a socket object another thread closed.
Fairness ==
  /\ WF_vars(BindOk \/ BindFail)
  /\ SF_vars(SweepAcquire)
  /\ WF_vars(Sweep)
  /\ \A s \in Sessions :
       /\ WF_vars(DialOk(s) \/ DialFail(s))
       /\ SF_vars(RegisterAcquire(s))
       /\ WF_vars(RegisterAppend(s))
  /\ \A p \in Pumps :
       /\ SF_vars(SubmitAcquire(p))
       /\ WF_vars(SubmitStore(p))
       /\ WF_vars(SendOk(p) \/ \E k \in 0..(Len(Flatten(rd[p])) + 1) : SendFail(p, k))
  /\ SF_vars(MonitorAcquire)
  /\ WF_vars(MonitorSnapshot)

FairSpec == InitFair /\ [][Next]_vars /\ Fairness

\* ------------------------------------------------------------- properties
ClientPump(s) == <<s, "c2p">>
PoolPump(s) == <<s, "p2c">>

\* The pump is not in the middle of inspecting a chunk.
Quiescent(p) == pPc[p] \in {"idle", "recv", "send", "done"}

\* The pump thread runs (it was started and has not returned).
PumpRunning(p) == pPc[p] \in {"recv", "inspect", "locked", "send"}

\* The newline-terminated lines of a byte stream, as the wire protocol
\* defines them, whatever the reads the stream arrived in.
CompleteLines(stream) == SubSeq(Split(stream), 1, Len(Split(stream)) - 1)

\* Is this line of the stream a submit message: UTF-8 text that is an object
\* with method "submit".
IsSubmitLine(line) == line # <<>> /\ Decodable(line) /\ Parse(line) = "submit"

\* Is this line malformed: not empty, and not UTF-8, not JSON or no object.
IsBadLine(line) ==
  line # <<>> /\ (~Decodable(line) \/ Parse(line) \in {"invalid", "scalar"})

\* The submit messages in a stream.
SubmitLines(stream) ==
  Cardinality({i \in 1..Len(CompleteLines(stream)) : IsSubmitLine(CompleteLines(stream)[i])})

\* The submit messages of a stream that follow a malformed line.
SubmitLinesAfterBad(stream) ==
  LET lines == CompleteLines(stream)
  IN  Cardinality({i \in 1..Len(lines) :
        IsSubmitLine(lines[i]) /\ \E j \in 1..(i - 1) : IsBadLine(lines[j])})

\* The stream is a sequence of whole lines.
WholeLines(stream) == stream = <<>> \/ Last(stream) = "NL"

RECURSIVE SubmitsSent(_)
SubmitsSent(ss) ==
  IF ss = {} THEN 0
  ELSE LET s == CHOOSE x \in ss : TRUE
       IN  SubmitLines(Flatten(rd[ClientPump(s)])) + SubmitsSent(ss \ {s})

\* C1: byte-transparency: in each direction of every session the bytes
\* forward() has written to dst are at every moment a prefix of the bytes it
\* has read from src, whatever the inspection made of them.
ByteTransparency == \A p \in Pumps : IsPrefix(wr[p], Flatten(rd[p]))

\* C1 witness: a pump has read two chunks, one of them undecodable, and has
\* written both.
ByteTransparencyWitness ==
  \E p \in Pumps :
    /\ Len(rd[p]) = 2
    /\ wr[p] = Flatten(rd[p])
    /\ \E i \in 1..Len(wr[p]) : wr[p][i] = "X"
    /\ \E i \in 1..Len(wr[p]) : wr[p][i] # "X"

\* C2: counter correctness: once the clients have sent N whole submit
\* messages and every pump is through with what it read, shares_submitted
\* is N.
CounterCorrectness ==
  ( /\ \A p \in Pumps : Quiescent(p)
    /\ \A s \in Sessions : WholeLines(Flatten(rd[ClientPump(s)])) )
  => shares_submitted = SubmitsSent(Sessions)

\* C3: fragmentation tolerance: a single submit line that arrived in two
\* reads of a client pump has been counted exactly once when the pump is
\* through with the second read.
FragmentCountedOnce ==
  \A s \in Sessions :
    ( /\ Len(rd[ClientPump(s)]) = 2
      /\ Flatten(rd[ClientPump(s)]) = <<"S1", "S2", "NL">>
      /\ Quiescent(ClientPump(s))
      /\ \A t \in Sessions \ {s} : rd[ClientPump(t)] = <<>> )
    => shares_submitted = 1

\* C4: leak freedom: once both pumps of a session have exited, the session
\* is eventually absent from `connections` (or the process has ended).
RegistryLeakFree ==
  \A s \in Sessions :
    (pPc[ClientPump(s)] = "done" /\ pPc[PoolPump(s)] = "done")
      ~> (s \notin Registered \/ ~Running)

\* C5: registry invariant: a session is in `connections` if and only if both
\* its sockets are open and at least one of its pumps is running.
RegistryInvariant ==
  \A s \in Sessions :
    (s \in Registered) <=>
      ( /\ sockC[s] = "open"
        /\ sockP[s] = "open"
        /\ (PumpRunning(ClientPump(s)) \/ PumpRunning(PoolPump(s))) )

\* C6: full-duplex teardown: a pump that has stopped has closed both sockets
\* of its session, and the other pump of the session eventually stops too.
FullDuplexTeardown ==
  /\ [](\A p \in Pumps : pPc[p] = "done" => sockC[p[1]] = "closed" /\ sockP[p[1]] = "closed")
  /\ \A p \in Pumps : (pPc[p] = "done") ~> (pPc[Other(p)] = "done" \/ ~Running)

\* C7: fault isolation: after a malformed line the pump goes on, and every
\* submit line that follows it on the same connection is counted.
FaultIsolation ==
  \A s \in Sessions :
    ( /\ Quiescent(ClientPump(s))
      /\ WholeLines(Flatten(rd[ClientPump(s)]))
      /\ \A t \in Sessions \ {s} : rd[ClientPump(t)] = <<>> )
    => shares_submitted >= SubmitLinesAfterBad(Flatten(rd[ClientPump(s)]))

\* C8: a decode failure is local to one line: of one read that holds whole
\* lines, some of them bad, every submit line is counted.
DecodeFailureLocal ==
  \A s \in Sessions :
    ( /\ Len(rd[ClientPump(s)]) = 1
      /\ Quiescent(ClientPump(s))
      /\ WholeLines(rd[ClientPump(s)][1])
      /\ \E i \in 1..Len(CompleteLines(rd[ClientPump(s)][1])) :
           IsBadLine(CompleteLines(rd[ClientPump(s)][1])[i]) )
    => shares_submitted >= SubmitLines(rd[ClientPump(s)][1])

\* What belongs to session s alone.
SessionState(s) ==
  <<hPc[s], sockC[s], sockP[s], pPc[ClientPump(s)], pPc[PoolPump(s)],
    rd[ClientPump(s)], rd[PoolPump(s)], wr[ClientPump(s)], wr[PoolPump(s)]>>

\* C9: upstream dial failure: the client socket is closed, the session is
\* not registered and has no pump, and the step that fails leaves the
\* listener, the registry and every other session as they were.
DialFailureContained ==
  /\ [](\A s \in Sessions :
         hPc[s] = "failed" =>
           /\ sockC[s] = "closed"
           /\ sockP[s] = "none"
           /\ s \notin Registered
           /\ pPc[ClientPump(s)] = "idle"
           /\ pPc[PoolPump(s)] = "idle")
  /\ [][\A s \in Sessions :
          (hPc[s] = "dial" /\ hPc'[s] = "failed") =>
            /\ mainPc' = mainPc
            /\ connections' = connections
            /\ shares_submitted' = shares_submitted
            /\ \A t \in Sessions \ {s} : SessionState(t)' = SessionState(t)]_vars

\* C9 witness: the dial of session 1 failed, the listener is in its accept
\* loop, and session 2 was accepted, dialled and registered.
DialFailureWitness ==
  /\ hPc[1] = "failed"
  /\ mainPc = "accept"
  /\ hPc[2] = "done"
  /\ sockC[2] = "open"
  /\ sockP[2] = "open"

\* C10: the listener leaves its accept loop only for a bind failure or the
\* termination signal: an error raised by accept() does not end it.
AcceptErrorSurvived ==
  mainPc \in {"finally", "sweep", "stopped"} => caught \in {"bind", "interrupt"}

\* ------------------------------------------------- session lifecycle (C11)
\* The pump thread was started (it runs or has returned).
PumpStarted(p) == pPc[p] # "idle"

\* C11: lifecycle ordering: a session is registered before its pump threads
\* start, so no pump of a session that is not in `connections` is running or
\* has exited.
RegisteredBeforePumps ==
  \A p \in Pumps : PumpStarted(p) => p[1] \in Registered

\* ------------------------------------------------------ share counter (C12)
\* The lines of the chunk the pump is inspecting, as split('\n') gave them.
ChunkLines(p) == Split(Last(rd[p]))

\* C12: the share counter never decreases and changes only in steps of +1,
\* each made by a from-client pump for a line of a decoded chunk that
\* json.loads() accepts and whose method is "submit"; a step for a from-pool
\* message, a non-submit message, an empty line or an undecodable line leaves
\* it as it is.
ShareCounterMonotone ==
  [][shares_submitted' # shares_submitted =>
       /\ shares_submitted' = shares_submitted + 1
       /\ \E p \in Pumps :
            /\ IsFromClient(p)
            /\ pPc[p] = "locked"
            /\ pPc'[p] # "locked"
            /\ rd[p] # <<>>
            /\ Decodable(Last(rd[p]))
            /\ msgs[p] # <<>>
            /\ IsSubmitLine(Head(msgs[p]))
            /\ \E i \in 1..Len(ChunkLines(p)) :
                 msgs[p] = SubSeq(ChunkLines(p), i, Len(ChunkLines(p)))]_vars

\* C12 witness: the counter is 1 after the client sent a submit message and
\* an undecodable byte and the pool sent a submit message, all inspected.
ShareCounterWitness ==
  /\ shares_submitted = 1
  /\ \E s \in Sessions :
       /\ Quiescent(ClientPump(s))
       /\ Quiescent(PoolPump(s))
       /\ rd[PoolPump(s)] = << <<"S">> >>
       /\ Len(rd[ClientPump(s)]) = 2
       /\ \E i \in 1..2 : rd[ClientPump(s)][i] = <<"S">>
       /\ \E i \in 1..2 : rd[ClientPump(s)][i] \in {<<"X">>, <<"J">>}

\* ------------------------------------------------ snapshot consistency (C13)
\* The threads that are inside a `with lock:` block.
InCriticalSection ==
  {PumpThread(p) : p \in {q \in Pumps : pPc[q] = "locked"}}
    \cup {HandlerThread(s) : s \in {r \in Sessions : hPc[r] = "append"}}
    \cup (IF monPc = "snap" THEN {MonitorThread} ELSE {})
    \cup (IF mainPc = "sweep" THEN {MainThread} ELSE {})

\* C13: snapshot consistency: appends to the registry, increments of the
\* counter and the monitor's two reads exclude one another, so from the
\* monitor's read of len(connections) to its read of shares_submitted
\* neither variable changes: the pair it reports is the value of both at one
\* instant.
SnapshotConsistent ==
  /\ [](Cardinality(InCriticalSection) <= 1)
  /\ [](monPc = "snap" => current_connections = Len(connections))
  /\ [][monPc = "snap" =>
          connections' = connections /\ shares_submitted' = shares_submitted]_vars

\* C13 witness: the monitor is between its two reads, with one session
\* registered and one share counted, while the handler of the other session
\* waits to register.
SnapshotWitness ==
  /\ monPc = "snap"
  /\ current_connections = 1
  /\ shares_submitted = 1
  /\ \E s \in Sessions : hPc[s] = "register"

\* ------------------------------------------------ critical sections (C14)
\* C14: critical sections do no I/O: no line of the log was written by a
\* thread holding the lock, and the step main() makes while holding the lock
\* touches no socket.
NoIOUnderLock ==
  /\ [](\A line \in BagToSet(log) : ~line.held)
  /\ [][mainPc = "sweep" /\ mainPc' # "sweep" => sockC' = sockC /\ sockP' = sockP]_vars

\* ---------------------------------------------- cross-session isolation (C15)
\* C15: cross-session isolation: a step of a pump of one session (a chunk
\* read, decodable or not, an orderly close, a transport failure, a write)
\* leaves the handler, sockets, pumps and byte streams of every other
\* session and the listener as they were.
CrossSessionIsolation ==
  [][\A p \in Pumps :
       (pPc'[p] # pPc[p] \/ rd'[p] # rd[p] \/ wr'[p] # wr[p]) =>
         /\ \A t \in Sessions \ {p[1]} : SessionState(t)' = SessionState(t)
         /\ mainPc' = mainPc
         /\ caught' = caught
         /\ nAccepted' = nAccepted]_vars

\* C15 witness: one session read an undecodable chunk and then tore down,
\* while the other session has both sockets open and both pumps reading and
\* the listener is in its accept loop.
CrossSessionWitness ==
  \E s \in Sessions : \E t \in Sessions \ {s} :
    /\ rd[PoolPump(s)] = << <<"X">> >>
    /\ pPc[ClientPump(s)] = "done"
    /\ pPc[PoolPump(s)] = "done"
    /\ sockC[t] = "open"
    /\ sockP[t] = "open"
    /\ pPc[ClientPump(t)] = "recv"
    /\ pPc[PoolPump(t)] = "recv"
    /\ mainPc = "accept"

\* ------------------------------------------------------ shutdown sweep (C16)
\* The dial of the session succeeded: its pumps were started.
SessionStarted(s) == sockP[s] # "none"

\* C16: shutdown sweep: once main() has finished its sweep after the
\* termination signal, no socket of a session that was started is open,
\* whether or not its handler had registered it by then.
SweepClosesStarted ==
  (mainPc = "stopped" /\ caught = "interrupt") =>
    \A s \in Sessions : SessionStarted(s) => sockC[s] = "closed" /\ sockP[s] = "closed"

\* ------------------------------------------------- end-to-end scenario (C17)
\* How many lines of the log report `ev` with the number `n`.
LogCount(ev, n) ==
  CopiesIn(LogLine(ev, n, TRUE), log) + CopiesIn(LogLine(ev, n, FALSE), log)

\* The messages the pool may send in the scenario.
PoolMessages == {"J", "M", "R", "S"}

\* C17: end-to-end scenario: the client's one read is a whole submit line and
\* the pool's one read is a whole line m.  Once both are inspected the share
\* count is 1 and the log has one line reporting total 1; the log has a
\* new-job line if and only if m is a result that is a mapping with key job;
\* and once the pool's chunk is forwarded the client was written exactly the
\* bytes of the chunk.
EndToEndScenario ==
  \A s \in Sessions : \A m \in PoolMessages :
    ( /\ rd[ClientPump(s)] = << <<"S", "NL">> >>
      /\ rd[PoolPump(s)] = << <<m, "NL">> >>
      /\ Quiescent(ClientPump(s))
      /\ Quiescent(PoolPump(s)) )
    => /\ shares_submitted = 1
       /\ LogCount("share", 1) = 1
       /\ LogCount("job", 0) = (IF m = "J" THEN 1 ELSE 0)
       /\ pPc[PoolPump(s)] = "recv" => wr[PoolPump(s)] = <<m, "NL">>

\* C17 witness: the scenario has run to its end: the submit line is counted
\* and forwarded to the pool, the job line is logged and forwarded to the
\* client.
EndToEndWitness ==
  \E s \in Sessions :
    /\ rd[ClientPump(s)] = << <<"S", "NL">> >>
    /\ rd[PoolPump(s)] = << <<"J", "NL">> >>
    /\ wr[ClientPump(s)] = <<"S", "NL">>
    /\ wr[PoolPump(s)] = <<"J", "NL">>
    /\ shares_submitted = 1
    /\ LogCount("share", 1) = 1
    /\ LogCount("job", 0) = 1

\* -------------------------------------------------- descriptor release (C18)
\* C18: descriptor release: once both pumps of a session have returned, its
\* client socket and its pool socket are closed; and a pump that leaves its
\* loop when both are closed already returns all the same and changes no
\* socket of any session.
DescriptorRelease ==
  /\ [](\A s \in Sessions :
         (pPc[ClientPump(s)] = "done" /\ pPc[PoolPump(s)] = "done") =>
           sockC[s] = "closed" /\ sockP[s] = "closed")
  /\ [][\A p \in Pumps :
          ( /\ pPc[p] # "done"
            /\ pPc'[p] = "done"
            /\ sockC[p[1]] = "closed"
            /\ sockP[p[1]] = "closed" )
          => sockC' = sockC /\ sockP' = sockP]_vars

\* C18 witness: both pumps of a session have returned while another session
\* has its sockets open.
DescriptorReleaseWitness ==
  \E s \in Sessions : \E t \in Sessions \ {s} :
    /\ pPc[ClientPump(s)] = "done"
    /\ pPc[PoolPump(s)] = "done"
    /\ sockC[s] = "closed"
    /\ sockP[s] = "closed"
    /\ sockC[t] = "open"
    /\ sockP[t] = "open"

\* ------------------------------------------------ count before forward (C19)
\* The first n chunks the pump read, as one stream.
ReadUpTo(p, n) == Flatten(SubSeq(rd[p], 1, n))

\* The chunks of the pump that sendall() has written to the end.
WrittenChunks(p) == {i \in 1..Len(rd[p]) : Len(ReadUpTo(p, i)) <= Len(wr[p])}

\* The submit lines that lie whole inside chunk i of the pump: terminated by
\* a newline of the chunk and begun in it (the first piece of a chunk counts
\* only if the stream before the chunk ended with a newline).
SubmitLinesInside(p, i) ==
  LET lines == CompleteLines(rd[p][i])
  IN  Cardinality({j \in 1..Len(lines) :
        /\ IsSubmitLine(lines[j])
        /\ (j > 1 \/ WholeLines(ReadUpTo(p, i - 1)))})

RECURSIVE SubmitsForwarded(_, _)
SubmitsForwarded(p, chunks) ==
  IF chunks = {} THEN 0
  ELSE LET i == CHOOSE k \in chunks : TRUE
       IN  SubmitLinesInside(p, i) + SubmitsForwarded(p, chunks \ {i})

RECURSIVE SubmitsForwardedBy(_)
SubmitsForwardedBy(ss) ==
  IF ss = {} THEN 0
  ELSE LET s == CHOOSE x \in ss : TRUE
       IN  SubmitsForwarded(ClientPump(s), WrittenChunks(ClientPump(s)))
             + SubmitsForwardedBy(ss \ {s})

\* C19: count before forward: the share count is at least the number of
\* submit lines lying whole inside a chunk that a client pump has already
\* written to the pool: no submit goes upstream uncounted.
CountBeforeForward == shares_submitted >= SubmitsForwardedBy(Sessions)

\* --------------------------------------------- lock deadlock freedom (C20)
\* Who holds the lock is inside a `with lock:` block: not in accept, connect,
\* recv, sendall or sleep, and not at a `with lock:` waiting to enter.
HolderInCriticalSection ==
  /\ \A p \in Pumps : lock = PumpThread(p) => pPc[p] = "locked"
  /\ \A s \in Sessions : lock = HandlerThread(s) => hPc[s] = "append"
  /\ lock = MonitorThread => monPc = "snap"
  /\ lock = MainThread => mainPc = "sweep"

\* C20: deadlock freedom of the lock: the holder of the lock is always inside
\* its critical section, and under fair scheduling every thread that waits
\* at a `with lock:` enters it (unless the process ends first), whatever the
\* peers do or fail to do.
LockDeadlockFree ==
  /\ []HolderInCriticalSection
  /\ \A p \in Pumps : (pPc[p] = "inspect") ~> (pPc[p] = "locked" \/ ~Running)
  /\ \A s \in Sessions : (hPc[s] = "register") ~> (hPc[s] = "append" \/ ~Running)
  /\ (monPc = "sleep") ~> (monPc = "snap" \/ ~Running)
  /\ (mainPc = "finally") ~> (mainPc = "sweep")

\* C20 witness: the monitor holds the lock while a pump, a handler and
\* main() wait for it.
LockContentionWitness ==
  /\ lock = MonitorThread
  /\ monPc = "snap"
  /\ mainPc = "finally"
  /\ \E s \in Sessions : hPc[s] = "register" /\ pPc[ClientPump(s)] = "inspect"

====
